---- MODULE Spec2Model ----
(***************************************************************************)
(* Model of the navigation index of yee3 (src/src/yee3/app.py):           *)
(* SortedList, FastOrderedSet, ImageLoaderWorker and the ImageViewer      *)
(* handlers that load folders, apply batches and navigate.                *)
(*                                                                         *)
(* Positions are 0-based as in the source; a Python list l is the TLA+    *)
(* sequence whose element l[i] is stored at i + 1.  Paths are the         *)
(* NFD-normalised absolute paths the source works with, numbered 1..N.    *)
(***************************************************************************)
EXTENDS Integers, Naturals, Sequences, FiniteSets, TLC

(***************************************************************************)
(* Bounds of the model.                                                    *)
(***************************************************************************)
\* number of file paths: three per folder, folder 1 first; the last path
\* names a file that does not exist when the session starts
MaxFiles == 5
\* events from outside in one run, by kind:
\* accepted requests to open a folder or a file
MaxOpens == 2
\* accepted requests to reload the current folder
MaxReloads == 1
\* file-system changes (delete, create, touch, damage)
MaxFsEvents == 1
\* clicks on the VScroll, HScroll and Loop buttons
MaxClicks == 1
\* the worker's batch threshold (100 in the source), scaled to the model
BatchLimit == 2

None == 0

Paths == 1..MaxFiles
Folders == {((p - 1) \div 3) + 1 : p \in Paths}
Seeds == {2}
OrderNames == {"mtime", "random", "fname"}

\* os.path.dirname of a file path
DirName(p) == ((p - 1) \div 3) + 1
\* os.path.basename of a file path: names repeat from folder to folder
BaseName(p) == ((p - 1) % 3) + 1
\* st_ino of a file: positive and unique
Inode(p) == p
\* st_mtime of the files when the session starts: A(3), B(1), C(2), ...
InitMtime(p) == CASE BaseName(p) = 1 -> 3
                  [] BaseName(p) = 2 -> 1
                  [] OTHER -> 2
\* st_mtime a file gets when it is written during the session
Now == InitMtime(1)

\* uuid.uuid5(seed, identifier): deterministic, and injective in the
\* identifier for one seed
Uuid5(seed, identifier) == (identifier * (seed + 1)) % 7

(***************************************************************************)
(* Python list primitives.                                                 *)
(***************************************************************************)
\* list.insert(index, x)
ListInsert(l, index, x) ==
    [k \in 1..(Len(l) + 1) |->
        IF k <= index THEN l[k] ELSE IF k = index + 1 THEN x ELSE l[k - 1]]

\* list.pop(index)
ListPop(l, index) ==
    [k \in 1..(Len(l) - 1) |-> IF k <= index THEN l[k] ELSE l[k + 1]]

\* list.index(x): position of the first element equal to x, -1 for ValueError
ListIndex(l, x) ==
    IF \E k \in 1..Len(l) : l[k] = x
    THEN (CHOOSE k \in 1..Len(l) : l[k] = x /\ \A j \in 1..(k - 1) : l[j] # x) - 1
    ELSE -1

RECURSIVE BisectLoop(_, _, _, _)
BisectLoop(l, x, lo, hi) ==
    IF lo < hi
    THEN LET mid == (lo + hi) \div 2
         IN IF l[mid + 1] < x THEN BisectLoop(l, x, mid + 1, hi)
                              ELSE BisectLoop(l, x, lo, mid)
    ELSE lo

\* bisect.bisect_right(l, x): the position after the elements equal to x
BisectRight(l, x) == Cardinality({k \in 1..Len(l) : l[k] <= x})

\* bisect.bisect_left(l, x)
BisectLeft(l, x) == BisectLoop(l, x, 0, Len(l))

(***************************************************************************)
(* SortedList                                                              *)
(***************************************************************************)
SortedListAdd(l, item) == ListInsert(l, BisectLeft(l, item), item)

\* remove without the test that the element found equals item
SortedListRemoveUnchecked(l, item) ==
    LET index == BisectLeft(l, item)
    IN IF index < Len(l)
       THEN [list |-> ListPop(l, index), err |-> FALSE]
       ELSE [list |-> l, err |-> TRUE]

\* remove: [list, err]; err is the ValueError of the source
SortedListRemove(l, item) ==
    LET index == BisectLeft(l, item)
    IN IF index < Len(l) /\ l[index + 1] = item
       THEN [list |-> ListPop(l, index), err |-> FALSE]
       ELSE [list |-> l, err |-> TRUE]

(***************************************************************************)
(* ImageData                                                               *)
(***************************************************************************)
\* The strings ImageData.generate hashes, numbered: f"{st_ino}" is the
\* inode number itself, and the strings f"{name}:{st_ctime:.32f}" are
\* numbered above every inode number, one number per name and time.
MaxKeyTime == 2
NameIdentifier(name, st_ctime) == MaxFiles + name * (MaxKeyTime + 1) + st_ctime

\* image_identifier of ImageData.generate
image_identifier(imagefile) ==
    IF imagefile.stat_result.st_ino > 0
    THEN imagefile.stat_result.st_ino
    ELSE NameIdentifier(imagefile.name, imagefile.stat_result.st_ctime)

\* generate that also hashes the modification time
generateWithMtime(seed, imagefile) ==
    [name |-> imagefile.name,
     path_nf |-> imagefile.path_nf,
     st_mtime |-> imagefile.stat_result.st_mtime,
     pseudo_random_hash |->
         Uuid5(seed, image_identifier(imagefile) + imagefile.stat_result.st_mtime)]

\* ImageData.generate(pseudo_random_seed, imagefile), imagefile an ImageFile
\* after stat(): [name, path_nf, stat_result]
generate(seed, imagefile) ==
    [name |-> imagefile.name,
     path_nf |-> imagefile.path_nf,
     st_mtime |-> imagefile.stat_result.st_mtime,
     pseudo_random_hash |-> Uuid5(seed, image_identifier(imagefile))]

\* ImageData.generate for the file p of the file system, whose stat gave
\* mtime
Generate(seed, p, mtime) ==
    generate(seed, [name |-> BaseName(p), path_nf |-> p,
                    stat_result |-> [st_ino |-> Inode(p), st_ctime |-> InitMtime(p),
                                     st_mtime |-> mtime]])

(***************************************************************************)
(* FastOrderedSet: [items, keys, index_map, key_func]                      *)
(***************************************************************************)
\* KeyOf with the by-mtime key not negated: oldest first
KeyOfOldestFirst(key_func, item) ==
    CASE key_func = "mtime" -> item.st_mtime
      [] key_func = "random" -> item.pseudo_random_hash
      [] OTHER -> item.name

\* the key functions given to the three sets in ImageViewer.__init__
KeyOf(key_func, item) ==
    CASE key_func = "mtime" -> (-1) * item.st_mtime
      [] key_func = "random" -> item.pseudo_random_hash
      [] OTHER -> item.name

EmptyMap == [p \in {} |-> None]

NewSet(key_func) ==
    [items |-> <<>>, keys |-> <<>>, index_map |-> EmptyMap, key_func |-> key_func]

FosLen(s) == Len(s.items)

\* add without the test for a path already present
FosAddNoCheck(s, item) ==
    LET key == KeyOf(s.key_func, item)
        index == BisectLeft(s.keys, key)
    IN [s EXCEPT !.keys = SortedListAdd(s.keys, key),
                 !.items = ListInsert(s.items, index, item),
                 !.index_map = [p \in DOMAIN s.index_map \cup {item.path_nf} |->
                                   IF p = item.path_nf THEN item ELSE s.index_map[p]]]

FosAdd(s, item) ==
    IF item.path_nf \in DOMAIN s.index_map
    THEN s
    ELSE LET key == KeyOf(s.key_func, item)
             index == BisectLeft(s.keys, key)
         IN [s EXCEPT !.keys = SortedListAdd(s.keys, key),
                      !.items = ListInsert(s.items, index, item),
                      !.index_map = [p \in DOMAIN s.index_map \cup {item.path_nf} |->
                                        IF p = item.path_nf THEN item ELSE s.index_map[p]]]

\* update that puts the new record in the place of the one stored for its path
RECURSIVE FosUpdateReplace(_, _)
FosUpdateReplace(s, sequence) ==
    IF sequence = <<>> THEN s
    ELSE LET item == Head(sequence)
             s1 == IF item.path_nf \in DOMAIN s.index_map
                   THEN LET old == s.index_map[item.path_nf]
                        IN [s EXCEPT
                              !.index_map = [p \in DOMAIN s.index_map \ {item.path_nf}
                                               |-> s.index_map[p]],
                              !.items = ListPop(s.items, ListIndex(s.items, old)),
                              !.keys = SortedListRemove(s.keys,
                                                        KeyOf(s.key_func, old)).list]
                   ELSE s
         IN FosUpdateReplace(FosAdd(s1, item), Tail(sequence))

RECURSIVE FosUpdate(_, _)
FosUpdate(s, sequence) ==
    IF sequence = <<>> THEN s
    ELSE FosUpdate(FosAdd(s, Head(sequence)), Tail(sequence))

\* remove: [set, err]; an exception leaves the set as it was when raised
FosRemove(s, item) ==
    IF item.path_nf \notin DOMAIN s.index_map
    THEN [set |-> s, err |-> FALSE]
    ELSE LET m == [p \in DOMAIN s.index_map \ {item.path_nf} |-> s.index_map[p]]
             s1 == [s EXCEPT !.index_map = m]
             at == ListIndex(s.items, item)
         IN IF at < 0
            THEN [set |-> s1, err |-> TRUE]
            ELSE LET s2 == [s1 EXCEPT !.items = ListPop(s.items, at)]
                     r == SortedListRemove(s.keys, KeyOf(s.key_func, item))
                 IN [set |-> [s2 EXCEPT !.keys = r.list], err |-> r.err]

FosClear(s) == [s EXCEPT !.items = <<>>, !.keys = <<>>, !.index_map = EmptyMap]

\* index that answers position 0 for a path it does not know
FosIndexOrZero(s, value) ==
    IF value \in DOMAIN s.index_map
    THEN ListIndex(s.items, s.index_map[value])
    ELSE 0

\* index(value): the position, -1 for ValueError
FosIndex(s, value) ==
    IF value \in DOMAIN s.index_map
    THEN ListIndex(s.items, s.index_map[value])
    ELSE -1

\* __getitem__ that answers the last record for a position past the end
FosGetClamped(s, index) ==
    LET n == Len(s.items)
    IN IF n = 0 \/ index < (-1) * n
       THEN [item |-> None, err |-> TRUE]
       ELSE IF index >= n THEN [item |-> s.items[n], err |-> FALSE]
       ELSE IF index >= 0 THEN [item |-> s.items[index + 1], err |-> FALSE]
       ELSE [item |-> s.items[n + index + 1], err |-> FALSE]

\* __getitem__(index): [item, err]; self.items[index] counts a negative
\* index from the end, and err is the IndexError of a list index out of range
FosGet(s, index) ==
    LET n == Len(s.items)
    IN IF 0 <= index /\ index < n
       THEN [item |-> s.items[index + 1], err |-> FALSE]
       ELSE IF (-1) * n <= index /\ index < 0
       THEN [item |-> s.items[n + index + 1], err |-> FALSE]
       ELSE [item |-> None, err |-> TRUE]

(***************************************************************************)
(* State                                                                   *)
(***************************************************************************)
VARIABLES
    mtimeOrderSet,          \* ImageViewer.mtimeOrderSet
    randomOrderSet,         \* ImageViewer.randomOrderSet
    fnameOrderSet,          \* ImageViewer.fnameOrderSet
    verticalOrderSet,       \* name of the set bound to the vertical axis
    horizontalOrderSet,     \* name of the set bound to the horizontal axis
    currentPath,            \* ImageViewer.currentPath, None when nothing is shown
    selected_file_path,     \* ImageViewer.selected_file_path
    lazyLoadingInProgress,  \* ImageViewer.lazyLoadingInProgress
    loopScroll,             \* loopScroll.isChecked()
    pseudo_random_seed,     \* ImageViewer.pseudo_random_seed
    worker,                 \* the ImageLoaderWorker thread
    signals,                \* imageLoaded / finishedLoading signals queued to the GUI thread
    fs,                     \* the file system: exists, mtime, loads (decodes) per path
    error,                  \* a handler ended by an uncaught exception
    budget,                 \* events from outside left, by kind
    scan,                   \* history: the load request being served or last served
    last                    \* history: the last handler run and what it did

vars == <<mtimeOrderSet, randomOrderSet, fnameOrderSet, verticalOrderSet,
          horizontalOrderSet, currentPath, selected_file_path,
          lazyLoadingInProgress, loopScroll, pseudo_random_seed, worker,
          signals, fs, error, budget, scan, last>>

setVars == <<mtimeOrderSet, randomOrderSet, fnameOrderSet>>
axisVars == <<verticalOrderSet, horizontalOrderSet>>

\* the three sets and the current path, as one value the handlers transform
Viewer ==
    [mtime |-> mtimeOrderSet, random |-> randomOrderSet, fname |-> fnameOrderSet,
     currentPath |-> currentPath, err |-> FALSE, attempts |-> 0]

Order(v, name) ==
    CASE name = "mtime" -> v.mtime
      [] name = "random" -> v.random
      [] OTHER -> v.fname

\* paths of the records of a list
PathsOf(l) == {l[k].path_nf : k \in 1..Len(l)}

\* the working set: the members of the by-mtime set
Members == PathsOf(mtimeOrderSet.items)

(***************************************************************************)
(* The file system, as the handlers and the worker see it.                 *)
(***************************************************************************)
\* os.path.isfile(path) / a successful stat
IsFile(p) == fs[p].exists /\ ~fs[p].denied

\* stat raises an OSError other than FileNotFoundError (PermissionError, a
\* symbolic link that points to itself, ...), which ImageFile.stat does
\* not catch
StatRaises(p) == fs[p].exists /\ fs[p].denied

\* QPixmap(filePath) is not null: the file is there, readable, and decodes
Loads(p) == fs[p].exists /\ ~fs[p].denied /\ fs[p].ok

\* the entries os.scandir(folder) yields
ScanDir(folder) == {p \in Paths : DirName(p) = folder /\ fs[p].exists}

\* the place of an entry in its directory, which fixes the order in which
\* os.scandir yields the entries: B, C, A, ...
DirPos(p) == (BaseName(p) + 1) % 3

(***************************************************************************)
(* ImageViewer: the parts of the handlers that work on the three sets and  *)
(* on currentPath.  v is a Viewer value.                                   *)
(***************************************************************************)
\* loadImageFromFile(imageData): [viewer, image]; currentPath is set only
\* when the image loads, and image is None when it does not
loadImageFromFile(v, imageData) ==
    IF Loads(imageData.path_nf)
    THEN [viewer |-> [v EXCEPT !.currentPath = imageData.path_nf], image |-> 1]
    ELSE [viewer |-> v, image |-> None]

\* remove that forgets the by-name set
removeFromTwo(v, imageData) ==
    IF FosLen(v.mtime) = 0 THEN v
    ELSE LET v2 == [v EXCEPT !.mtime = FosRemove(v.mtime, imageData).set,
                             !.random = FosRemove(v.random, imageData).set]
         IN IF FosLen(v2.mtime) = 0 \/ v2.currentPath = imageData.path_nf
            THEN [v2 EXCEPT !.currentPath = None]
            ELSE v2

\* remove that leaves currentPath as it is
removeKeepsCurrent(v, imageData) ==
    IF FosLen(v.mtime) = 0 THEN v
    ELSE [v EXCEPT !.mtime = FosRemove(v.mtime, imageData).set,
                   !.random = FosRemove(v.random, imageData).set,
                   !.fname = FosRemove(v.fname, imageData).set]

\* ImageViewer.remove(imageData)
remove(v, imageData) ==
    IF FosLen(v.mtime) = 0 THEN v
    ELSE LET r1 == FosRemove(v.mtime, imageData)
             v1 == [v EXCEPT !.mtime = r1.set]
         IN IF r1.err THEN [v1 EXCEPT !.err = TRUE]
            ELSE LET r2 == FosRemove(v.random, imageData)
                     v2 == [v1 EXCEPT !.random = r2.set]
                 IN IF r2.err THEN [v2 EXCEPT !.err = TRUE]
                    ELSE LET r3 == FosRemove(v.fname, imageData)
                             v3 == [v2 EXCEPT !.fname = r3.set]
                         IN IF r3.err THEN [v3 EXCEPT !.err = TRUE]
                            ELSE IF FosLen(v3.mtime) = 0
                                    \/ v3.currentPath = imageData.path_nf
                                 THEN [v3 EXCEPT !.currentPath = None]
                                 ELSE v3

\* the wraparound guard of next, used for both directions
PastTheEndForward(step, index, indexNext) == indexNext < index

\* the wraparound guard with the two comparisons exchanged
PastTheEndSwapped(step, index, indexNext) ==
    IF step = 1 THEN indexNext > index ELSE indexNext < index

\* the wraparound guard of the four navigation handlers
PastTheEnd(step, index, indexNext) ==
    IF step = 1 THEN indexNext < index ELSE indexNext > index

\* the loop that gives up after the first candidate that fails to load
NavLoopNoRetry(v, name, local, step) ==
    IF FosLen(Order(v, name)) = 0 \/ local = None THEN v
    ELSE LET set == Order(v, name)
             index == FosIndex(set, local)
             indexNext == (index + step) % FosLen(set)
         IN IF index < 0 THEN [v EXCEPT !.err = TRUE]
            ELSE IF ~loopScroll /\ PastTheEnd(step, index, indexNext) THEN v
            ELSE LET newCurrentPath == FosGet(set, indexNext).item
                     loaded == loadImageFromFile([v EXCEPT !.attempts = @ + 1],
                                                 newCurrentPath)
                 IN IF loaded.image = None
                    THEN remove(loaded.viewer, newCurrentPath)
                    ELSE loaded.viewer

\* the while loop of the navigation handlers: name is the bound set, local
\* the handler's local currentPath, step +1 or -1
RECURSIVE NavLoop(_, _, _, _)
NavLoop(v, name, local, step) ==
    IF FosLen(Order(v, name)) = 0 \/ local = None THEN v
    ELSE LET set == Order(v, name)
             index == FosIndex(set, local)
             indexNext == (index + step) % FosLen(set)
         IN IF index < 0 THEN [v EXCEPT !.err = TRUE]
            ELSE IF ~loopScroll /\ PastTheEnd(step, index, indexNext) THEN v
            ELSE LET newCurrentPath == FosGet(set, indexNext).item
                     loaded == loadImageFromFile([v EXCEPT !.attempts = @ + 1],
                                                 newCurrentPath)
                 IN IF loaded.image = None
                    THEN LET v1 == remove(loaded.viewer, newCurrentPath)
                         IN IF v1.err THEN v1 ELSE NavLoop(v1, name, local, step)
                    ELSE loaded.viewer

\* a handler that starts from the first member when no file is current
NavigateFromFirst(v, name, step) ==
    IF FosLen(Order(v, name)) > 0
    THEN NavLoop(v, name,
                 IF v.currentPath = None
                 THEN FosGet(Order(v, name), 0).item.path_nf
                 ELSE v.currentPath,
                 step)
    ELSE v

\* a navigation handler: the guard on the bound set, then the loop
Navigate(v, name, step) ==
    IF FosLen(Order(v, name)) > 0
    THEN NavLoop(v, name, v.currentPath, step)
    ELSE v

\* store a Viewer value back into the state
Store(v) ==
    /\ mtimeOrderSet' = v.mtime
    /\ randomOrderSet' = v.random
    /\ fnameOrderSet' = v.fname
    /\ currentPath' = v.currentPath
    /\ error' = (error \/ v.err)

\* what a navigation handler did: the files it removed, and whether it
\* changed currentPath
History(op, v) ==
    [op |-> op, moved |-> (v.currentPath # currentPath),
     failed |-> Members \ PathsOf(v.mtime.items)]

NavUnchanged ==
    /\ UNCHANGED <<axisVars, selected_file_path, lazyLoadingInProgress, loopScroll,
                   pseudo_random_seed, worker, signals, fs, budget>>
    /\ scan' = IF scan.kind = "reloads"
               THEN [scan EXCEPT !.navigated = TRUE]
               ELSE scan

verticalPreviousImage ==
    LET v == Navigate(Viewer, verticalOrderSet, 1)
    IN Store(v) /\ last' = History("vprev", v) /\ NavUnchanged

verticalNextImage ==
    LET v == Navigate(Viewer, verticalOrderSet, -1)
    IN Store(v) /\ last' = History("vnext", v) /\ NavUnchanged

horizontalNextImage ==
    LET v == Navigate(Viewer, horizontalOrderSet, 1)
    IN Store(v) /\ last' = History("hnext", v) /\ NavUnchanged

horizontalPreviousImage ==
    LET v == Navigate(Viewer, horizontalOrderSet, -1)
    IN Store(v) /\ last' = History("hprev", v) /\ NavUnchanged

(***************************************************************************)
(* Axis bindings                                                           *)
(***************************************************************************)
\* toggled_order that takes the next name of the cycle whatever the other
\* axis is bound to
toggledOrderNoSkip(current, other) ==
    CASE current = "mtime" -> "random"
      [] current = "random" -> "fname"
      [] current = "fname" -> "mtime"
      [] OTHER -> "mtime"

toggled_order(current, other) ==
    CASE current = "mtime" -> (IF other = "random" THEN "fname" ELSE "random")
      [] current = "random" -> (IF other = "fname" THEN "mtime" ELSE "fname")
      [] current = "fname" -> (IF other = "mtime" THEN "random" ELSE "mtime")
      [] OTHER -> "mtime"

\* onVScrollClicked without the guard on the bound set
onVScrollClickedUnguarded ==
    /\ budget.clicks > 0
    /\ budget' = [budget EXCEPT !.clicks = @ - 1]
    /\ verticalOrderSet' = toggled_order(verticalOrderSet, horizontalOrderSet)
    /\ UNCHANGED <<setVars, horizontalOrderSet, currentPath, selected_file_path,
                   lazyLoadingInProgress, loopScroll, pseudo_random_seed, worker,
                   signals, fs, error, scan, last>>

onVScrollClicked ==
    /\ budget.clicks > 0
    /\ budget' = [budget EXCEPT !.clicks = @ - 1]
    /\ verticalOrderSet' =
          IF FosLen(Order(Viewer, verticalOrderSet)) > 0
          THEN toggled_order(verticalOrderSet, horizontalOrderSet)
          ELSE verticalOrderSet
    /\ UNCHANGED <<setVars, horizontalOrderSet, currentPath, selected_file_path,
                   lazyLoadingInProgress, loopScroll, pseudo_random_seed, worker,
                   signals, fs, error, scan, last>>

onHScrollClicked ==
    /\ budget.clicks > 0
    /\ budget' = [budget EXCEPT !.clicks = @ - 1]
    /\ horizontalOrderSet' =
          IF FosLen(Order(Viewer, horizontalOrderSet)) > 0
          THEN toggled_order(horizontalOrderSet, verticalOrderSet)
          ELSE horizontalOrderSet
    /\ UNCHANGED <<setVars, verticalOrderSet, currentPath, selected_file_path,
                   lazyLoadingInProgress, loopScroll, pseudo_random_seed, worker,
                   signals, fs, error, scan, last>>

\* the user checks or unchecks the Loop button
LoopScrollClicked ==
    /\ budget.clicks > 0
    /\ budget' = [budget EXCEPT !.clicks = @ - 1]
    /\ loopScroll' = ~loopScroll
    /\ UNCHANGED <<setVars, axisVars, currentPath, selected_file_path,
                   lazyLoadingInProgress, pseudo_random_seed, worker, signals,
                   fs, error, scan, last>>

(***************************************************************************)
(* Loading a folder                                                        *)
(***************************************************************************)
\* a test that takes every folder for the folder of the current file
SameFolderAlways(folderPath) == TRUE

\* os.path.samefile(os.path.dirname(currentPath), folderPath)
SameFolder(folderPath) == DirName(currentPath) = folderPath

\* what is remembered of a load that is not a rescan
NoScan ==
    [kind |-> "none", of |-> None, before |-> {}, found |-> {},
     navigated |-> FALSE, changed |-> FALSE, asked |-> None]

\* loadImagesFromFolder without the return at a scan in progress: the
\* request starts its worker whatever the first one is doing
loadImagesFromFolderUnguarded(filePath, folderPath, kind) ==
    /\ budget[kind] > 0
    /\ lazyLoadingInProgress' = TRUE
    /\ currentPath' = None
    /\ worker' = [pc |-> IF filePath # None THEN "file" ELSE "scandir",
                  folder |-> folderPath, filePath |-> filePath,
                  todo |-> {}, data |-> <<>>]
    /\ budget' = [budget EXCEPT ![kind] = @ - 1]
    /\ scan' = [NoScan EXCEPT !.kind = kind]
    /\ last' = [op |-> "load", moved |-> (currentPath # None), failed |-> {}]
    /\ UNCHANGED <<setVars, axisVars, selected_file_path, loopScroll,
                   pseudo_random_seed, signals, fs, error>>

\* loadImagesFromFolder(path): path is the file filePath when filePath is
\* not None, and the directory folderPath otherwise.  kind is the history
\* of who asked: "opens" or "reloads".  A request to open that arrives
\* while a scan is in progress returns at once; scan.asked remembers the
\* folder it named.  last remembers whether a file was current and which
\* members the load took out of the sets.
loadImagesFromFolder(filePath, folderPath, kind) ==
    IF lazyLoadingInProgress
    THEN IF kind = "opens" /\ budget.opens > 0 /\ (filePath = None \/ IsFile(filePath))
         THEN /\ budget' = [budget EXCEPT !.opens = @ - 1]
              /\ scan' = [scan EXCEPT !.asked = folderPath]
              /\ UNCHANGED <<setVars, axisVars, currentPath, selected_file_path,
                             lazyLoadingInProgress, loopScroll, pseudo_random_seed,
                             worker, signals, fs, error, last>>
         ELSE UNCHANGED vars
    ELSE IF filePath # None /\ ~IsFile(filePath)
    THEN UNCHANGED vars
    ELSE /\ budget[kind] > 0
         /\ lazyLoadingInProgress' = TRUE
         /\ IF ~(currentPath # None /\ SameFolder(folderPath))
            THEN /\ fnameOrderSet' = FosClear(fnameOrderSet)
                 /\ mtimeOrderSet' = FosClear(mtimeOrderSet)
                 /\ randomOrderSet' = FosClear(randomOrderSet)
                 /\ UNCHANGED selected_file_path
            ELSE /\ selected_file_path' = filePath
                 /\ UNCHANGED setVars
         /\ currentPath' = None
         /\ worker' = [pc |-> IF filePath # None THEN "file" ELSE "scandir",
                       folder |-> folderPath, filePath |-> filePath,
                       todo |-> {}, data |-> <<>>]
         /\ budget' = [budget EXCEPT ![kind] = @ - 1]
         /\ scan' = IF kind = "reloads"
                    THEN [kind |-> kind, of |-> currentPath, before |-> Members,
                          found |-> {}, navigated |-> FALSE, changed |-> FALSE,
                          asked |-> None]
                    ELSE [NoScan EXCEPT !.kind = kind]
         /\ last' = [op |-> "load", moved |-> (currentPath # None),
                     failed |-> Members \ PathsOf(mtimeOrderSet'.items)]
         /\ UNCHANGED <<axisVars, loopScroll, pseudo_random_seed, signals, fs, error>>

\* openFolder: the user picks a directory
openFolder(folder) == loadImagesFromFolder(None, folder, "opens")

\* openFile, dropEvent, the command line: the user names an image file
openFile(filePath) == loadImagesFromFolder(filePath, DirName(filePath), "opens")

\* reloadCurrentFolder, also run by on_directory_changed
reloadCurrentFolder ==
    IF currentPath # None
    THEN loadImagesFromFolder(currentPath, DirName(currentPath), "reloads")
    ELSE UNCHANGED vars

(***************************************************************************)
(* ImageLoaderWorker.run, one step per file looked at                      *)
(***************************************************************************)
WorkerUnchanged ==
    UNCHANGED <<setVars, axisVars, currentPath, selected_file_path,
                lazyLoadingInProgress, loopScroll, pseudo_random_seed, fs,
                error, budget, last>>

ImageLoaded(data) == [type |-> "imageLoaded", data |-> data]
FinishedLoading == [type |-> "finishedLoading", data |-> <<>>]

\* a rescan remembers the files it discovered
Found(data) ==
    IF scan.kind = "reloads"
    THEN [scan EXCEPT !.found = @ \cup PathsOf(data)]
    ELSE scan

Emit(data) ==
    /\ signals' = Append(signals, ImageLoaded(data))
    /\ scan' = Found(data)

\* a worker that goes straight to the directory
WorkerFileSkipped ==
    /\ worker.pc = "file"
    /\ UNCHANGED <<signals, scan>>
    /\ worker' = [worker EXCEPT !.pc = "scandir"]
    /\ WorkerUnchanged

\* the file the load was asked for is emitted first, alone.  Its stat is
\* outside the try block: an exception it raises ends run(), and neither a
\* batch nor finishedLoading is emitted.
WorkerFile ==
    /\ worker.pc = "file"
    /\ IF StatRaises(worker.filePath)
       THEN /\ UNCHANGED <<signals, scan>>
            /\ worker' = [worker EXCEPT !.pc = "dead"]
       ELSE /\ IF IsFile(worker.filePath)
               THEN Emit(<<Generate(pseudo_random_seed, worker.filePath,
                                    fs[worker.filePath].mtime)>>)
               ELSE UNCHANGED <<signals, scan>>
            /\ worker' = [worker EXCEPT !.pc = "scandir"]
    /\ WorkerUnchanged

\* os.scandir(folder) is opened
WorkerScanDir ==
    /\ worker.pc = "scandir"
    /\ worker' = [worker EXCEPT !.pc = "scan", !.todo = ScanDir(worker.folder)]
    /\ UNCHANGED <<signals, scan>>
    /\ WorkerUnchanged

\* a test that lets the batch grow one record past the threshold
BatchDueLate(data, elapsed) == Len(data) > BatchLimit \/ elapsed

\* len(data) >= 100 or (now - last_emit_timestamp).total_seconds() > 0.25
BatchDue(data, elapsed) == Len(data) >= BatchLimit \/ elapsed

\* one directory entry: stat, append, and emit when the batch is full or
\* the 0.25 s interval has elapsed.  An exception the stat raises leaves
\* the loop by the except clause: the records gathered in data are not
\* emitted, the entries left are not looked at, finishedLoading follows.
WorkerEntry(p, elapsed) ==
    /\ worker.pc = "scan"
    /\ p \in worker.todo
    /\ \A q \in worker.todo : DirPos(p) <= DirPos(q)
    /\ IF StatRaises(p)
       THEN /\ signals' = Append(signals, FinishedLoading)
            /\ UNCHANGED scan
            /\ worker' = [worker EXCEPT !.pc = "idle", !.todo = {}, !.data = <<>>]
       ELSE LET data == IF IsFile(p)
                        THEN Append(worker.data,
                                    Generate(pseudo_random_seed, p, fs[p].mtime))
                        ELSE worker.data
            IN IF BatchDue(data, elapsed) /\ Len(data) > 0
               THEN /\ Emit(data)
                    /\ worker' = [worker EXCEPT !.todo = @ \ {p}, !.data = <<>>]
               ELSE /\ UNCHANGED <<signals, scan>>
                    /\ worker' = [worker EXCEPT !.todo = @ \ {p}, !.data = data]
    /\ WorkerUnchanged

\* the end of the enumeration: the rest of the batch, then finishedLoading
WorkerFinish ==
    /\ worker.pc = "scan"
    /\ worker.todo = {}
    /\ signals' = IF Len(worker.data) > 0
                  THEN Append(Append(signals, ImageLoaded(worker.data)),
                              FinishedLoading)
                  ELSE Append(signals, FinishedLoading)
    /\ scan' = Found(worker.data)
    /\ worker' = [worker EXCEPT !.pc = "idle", !.data = <<>>]
    /\ WorkerUnchanged

(***************************************************************************)
(* The slots the worker's signals are delivered to                         *)
(***************************************************************************)
\* handleNewImage that is cut short after the first of its three updates
handleNewImagePartial ==
    /\ signals # <<>>
    /\ Head(signals).type = "imageLoaded"
    /\ Store([Viewer EXCEPT !.fname = FosUpdate(fnameOrderSet, Head(signals).data)])
    /\ last' = [op |-> "batch", moved |-> FALSE, failed |-> {}]
    /\ selected_file_path' = None
    /\ signals' = Tail(signals)
    /\ UNCHANGED <<axisVars, lazyLoadingInProgress, loopScroll,
                   pseudo_random_seed, worker, fs, budget, scan>>

\* handleNewImage that shows the first record of a batch only when the
\* sets were empty
handleNewImageIfEmpty ==
    /\ signals # <<>>
    /\ Head(signals).type = "imageLoaded"
    /\ LET imageDataList == Head(signals).data
           existing_image_count == FosLen(mtimeOrderSet)
           v == [Viewer EXCEPT !.fname = FosUpdate(fnameOrderSet, imageDataList),
                               !.mtime = FosUpdate(mtimeOrderSet, imageDataList),
                               !.random = FosUpdate(randomOrderSet, imageDataList)]
           v1 == IF existing_image_count = 0 /\ imageDataList # <<>>
                 THEN loadImageFromFile(v, imageDataList[1]).viewer
                 ELSE v
       IN /\ Store(v1)
          /\ last' = [op |-> "batch", moved |-> FALSE, failed |-> {}]
    /\ selected_file_path' = None
    /\ signals' = Tail(signals)
    /\ UNCHANGED <<axisVars, lazyLoadingInProgress, loopScroll,
                   pseudo_random_seed, worker, fs, budget, scan>>

handleNewImage ==
    /\ signals # <<>>
    /\ Head(signals).type = "imageLoaded"
    /\ LET imageDataList == Head(signals).data
           existing_image_count == FosLen(mtimeOrderSet)
           v == [Viewer EXCEPT !.fname = FosUpdate(fnameOrderSet, imageDataList),
                               !.mtime = FosUpdate(mtimeOrderSet, imageDataList),
                               !.random = FosUpdate(randomOrderSet, imageDataList)]
           v1 == IF (existing_image_count = 0 \/ selected_file_path # None)
                    /\ imageDataList # <<>>
                 THEN loadImageFromFile(v, imageDataList[1]).viewer
                 ELSE v
       IN /\ Store(v1)
          /\ last' = [op |-> "batch", moved |-> FALSE, failed |-> {}]
    /\ selected_file_path' = None
    /\ signals' = Tail(signals)
    /\ UNCHANGED <<axisVars, lazyLoadingInProgress, loopScroll,
                   pseudo_random_seed, worker, fs, budget, scan>>

finishLoadingImages ==
    /\ signals # <<>>
    /\ Head(signals).type = "finishedLoading"
    /\ lazyLoadingInProgress' = FALSE
    /\ signals' = Tail(signals)
    /\ last' = [op |-> "finish", moved |-> FALSE, failed |-> {}]
    /\ UNCHANGED <<setVars, axisVars, currentPath, selected_file_path, loopScroll,
                   pseudo_random_seed, worker, fs, error, budget, scan>>

(***************************************************************************)
(* The file system changes under the program                               *)
(***************************************************************************)
FsEvent(p, file) ==
    /\ budget.fs > 0
    /\ fs' = [fs EXCEPT ![p] = file]
    /\ budget' = [budget EXCEPT !.fs = @ - 1]
    /\ scan' = IF scan.kind = "reloads" /\ scan.of = p /\ ~(file.exists /\ file.ok)
               THEN [scan EXCEPT !.changed = TRUE]
               ELSE scan
    /\ UNCHANGED <<setVars, axisVars, currentPath, selected_file_path,
                   lazyLoadingInProgress, loopScroll, pseudo_random_seed,
                   signals, error, last>>

\* a file is deleted
FsDelete(p) ==
    /\ fs[p].exists
    /\ FsEvent(p, [fs[p] EXCEPT !.exists = FALSE])
    /\ UNCHANGED worker

\* a file appears; a scan under way in its folder may or may not see it
FsCreate(p) ==
    /\ ~fs[p].exists
    /\ FsEvent(p, [exists |-> TRUE, mtime |-> Now, ok |-> TRUE, denied |-> FALSE])
    /\ \/ UNCHANGED worker
       \/ /\ worker.pc = "scan"
          /\ worker.folder = DirName(p)
          /\ worker' = [worker EXCEPT !.todo = @ \cup {p}]

\* a file is rewritten with a new modification time
FsTouch(p) ==
    /\ fs[p].exists
    /\ fs[p].mtime # Now
    /\ FsEvent(p, [fs[p] EXCEPT !.mtime = Now])
    /\ UNCHANGED worker

\* a file is overwritten with something that does not decode
FsDamage(p) ==
    /\ fs[p].exists
    /\ fs[p].ok
    /\ FsEvent(p, [fs[p] EXCEPT !.ok = FALSE])
    /\ UNCHANGED worker

\* a file becomes one whose stat raises: its directory loses the search
\* permission, or it is replaced by a symbolic link that points to itself
FsDeny(p) ==
    /\ fs[p].exists
    /\ ~fs[p].denied
    /\ FsEvent(p, [fs[p] EXCEPT !.denied = TRUE])
    /\ UNCHANGED worker

\* The runs explored, by the events from outside they hold: opening twice;
\* opening, a change on disk and a reload; opening, a change on disk and a
\* click.
Budgets ==
    {[opens |-> MaxOpens, reloads |-> 0, fs |-> 0, clicks |-> 0],
     [opens |-> 1, reloads |-> MaxReloads, fs |-> MaxFsEvents, clicks |-> 0],
     [opens |-> 1, reloads |-> 0, fs |-> MaxFsEvents, clicks |-> MaxClicks]}

(***************************************************************************)
(* The program                                                             *)
(***************************************************************************)
\* ImageViewer.__init__
InitViewer ==
    /\ mtimeOrderSet = NewSet("mtime")
    /\ randomOrderSet = NewSet("random")
    /\ fnameOrderSet = NewSet("fname")
    /\ verticalOrderSet = "mtime"
    /\ horizontalOrderSet = "random"
    /\ currentPath = None
    /\ selected_file_path = None
    /\ lazyLoadingInProgress = FALSE
    /\ loopScroll = FALSE
    /\ pseudo_random_seed \in Seeds
    /\ worker = [pc |-> "idle", folder |-> None, filePath |-> None,
                 todo |-> {}, data |-> <<>>]
    /\ signals = <<>>
    /\ fs = [p \in Paths |->
               [exists |-> (p # MaxFiles), mtime |-> InitMtime(p), ok |-> TRUE,
                denied |-> FALSE]]
    /\ error = FALSE
    /\ scan = NoScan
    /\ last = [op |-> "init", moved |-> FALSE, failed |-> {}]

Init == InitViewer /\ budget \in Budgets

Next ==
    \/ \E folder \in Folders : openFolder(folder)
    \/ \E filePath \in Paths : openFile(filePath)
    \/ reloadCurrentFolder
    \/ WorkerFile
    \/ WorkerScanDir
    \/ \E p \in Paths, elapsed \in BOOLEAN : WorkerEntry(p, elapsed)
    \/ WorkerFinish
    \/ handleNewImage
    \/ finishLoadingImages
    \/ verticalPreviousImage
    \/ verticalNextImage
    \/ horizontalNextImage
    \/ horizontalPreviousImage
    \/ onVScrollClicked
    \/ onHScrollClicked
    \/ LoopScrollClicked
    \/ \E p \in Paths : FsDelete(p)
    \/ \E p \in Paths : FsCreate(p)
    \/ \E p \in Paths : FsTouch(p)
    \/ \E p \in Paths : FsDamage(p)

Spec == Init /\ [][Next]_vars

(***************************************************************************)
(* The three FastOrderedSets on their own: any sequence of add, remove and *)
(* clear, applied to all three alike, with any record the program can      *)
(* build for a path (ImageData.generate over the path's possible stats).   *)
(***************************************************************************)
\* paths and modification times of the records offered to the sets
MaxSetPaths == 3
MaxSetMtime == 2
\* length to which a sequence of the sets may grow
MaxSetLen == 3

AllSets == <<mtimeOrderSet, randomOrderSet, fnameOrderSet>>

SetRecords ==
    {Generate(pseudo_random_seed, p, m) : p \in 1..MaxSetPaths, m \in 1..MaxSetMtime}

SetUnchanged ==
    UNCHANGED <<axisVars, currentPath, selected_file_path, lazyLoadingInProgress,
                loopScroll, pseudo_random_seed, worker, signals, fs, budget, scan>>

SetOp(op) == [op |-> op, moved |-> FALSE, failed |-> {}]

SetAdd(item) ==
    /\ \A k \in 1..3 : FosLen(AllSets[k]) < MaxSetLen
    /\ Store([Viewer EXCEPT !.mtime = FosAdd(mtimeOrderSet, item),
                            !.random = FosAdd(randomOrderSet, item),
                            !.fname = FosAdd(fnameOrderSet, item)])
    /\ last' = SetOp("add")
    /\ SetUnchanged

SetRemove(item) ==
    /\ LET r1 == FosRemove(mtimeOrderSet, item)
           r2 == FosRemove(randomOrderSet, item)
           r3 == FosRemove(fnameOrderSet, item)
       IN Store([Viewer EXCEPT !.mtime = r1.set, !.random = r2.set,
                               !.fname = r3.set,
                               !.err = (r1.err \/ r2.err \/ r3.err)])
    /\ last' = SetOp("remove")
    /\ SetUnchanged

SetClear ==
    /\ Store([Viewer EXCEPT !.mtime = FosClear(mtimeOrderSet),
                            !.random = FosClear(randomOrderSet),
                            !.fname = FosClear(fnameOrderSet)])
    /\ last' = SetOp("clear")
    /\ SetUnchanged

SetInit ==
    /\ InitViewer
    /\ budget = [opens |-> 0, reloads |-> 0, fs |-> 0, clicks |-> 0]

SetNext ==
    \/ \E item \in SetRecords : SetAdd(item)
    \/ \E item \in SetRecords : SetRemove(item)
    \/ SetClear

SetSpec == SetInit /\ [][SetNext]_vars

(***************************************************************************)
(* Properties                                                              *)
(***************************************************************************)
\* C1: membership parity.  In every reachable state of the program (batch
\* arrivals, removals by navigation, clears on a folder switch) the by-mtime,
\* by-name and by-random sets hold exactly the same paths, in their
\* sequences and in their lookup tables, and have the same size.
MembershipParity ==
    /\ PathsOf(randomOrderSet.items) = PathsOf(mtimeOrderSet.items)
    /\ PathsOf(fnameOrderSet.items) = PathsOf(mtimeOrderSet.items)
    /\ \A k \in 1..3 : DOMAIN AllSets[k].index_map = PathsOf(mtimeOrderSet.items)
    /\ FosLen(randomOrderSet) = FosLen(mtimeOrderSet)
    /\ FosLen(fnameOrderSet) = FosLen(mtimeOrderSet)

\* C1 witness: a navigation step has removed a file that failed to load from
\* a working set that other batches had filled, and members remain.
MembershipParityWitness ==
    /\ last.op \in {"vprev", "vnext", "hnext", "hprev"}
    /\ last.failed # {}
    /\ Cardinality(Members) >= 2
    /\ MembershipParity

\* C2: ordering invariant.  After any sequence of add and remove on the
\* keyed sets, records appear in non-decreasing key order: newest first
\* (negated mtime) in the by-mtime set, by hash in the by-random set, by
\* name in the by-name set.
OrderingInvariant ==
    /\ \A i, j \in 1..FosLen(mtimeOrderSet) :
          i < j => mtimeOrderSet.items[i].st_mtime >= mtimeOrderSet.items[j].st_mtime
    /\ \A i, j \in 1..FosLen(randomOrderSet) :
          i < j => randomOrderSet.items[i].pseudo_random_hash
                      <= randomOrderSet.items[j].pseudo_random_hash
    /\ \A i, j \in 1..FosLen(fnameOrderSet) :
          i < j => fnameOrderSet.items[i].name <= fnameOrderSet.items[j].name

\* C2 witness: three records, two of them with the same mtime, are in the
\* sets after a remove.
OrderingInvariantWitness ==
    /\ last.op = "remove"
    /\ FosLen(mtimeOrderSet) = 3
    /\ mtimeOrderSet.items[1].st_mtime = mtimeOrderSet.items[2].st_mtime
    /\ mtimeOrderSet.items[2].st_mtime > mtimeOrderSet.items[3].st_mtime
    /\ OrderingInvariant

(***************************************************************************)
(* What the properties below read of a state                               *)
(***************************************************************************)
NavOps == {"vprev", "vnext", "hnext", "hprev"}

\* the paths of the set bound under name, in the set's order
PathSeq(name) ==
    [k \in 1..FosLen(Order(Viewer, name)) |-> Order(Viewer, name).items[k].path_nf]

\* the place (from 1) of the current file in that order, 0 when it has none
Position(name) ==
    LET s == PathSeq(name)
    IN IF \E k \in DOMAIN s : s[k] = currentPath
       THEN CHOOSE k \in DOMAIN s : s[k] = currentPath
       ELSE 0

\* every member of the working set loads
AllLoad == \A p \in Members : Loads(p)

\* the place of the k-th candidate of a walk by step from place i of n, and
\* whether the walk may reach it (without loop it stops at either end)
Place(i, step, n, k) == ((i - 1 + k * step) % n) + 1
MayReach(i, step, n, k) ==
    IF loopScroll THEN k \in 1..(n - 1) ELSE (i + k * step) \in 1..n

\* C3: whenever no scan is in progress and the working set is non-empty,
\* currentPath is not none and is a member of all three sets.
CurrentPositionValid ==
    (~lazyLoadingInProgress /\ Members # {}) =>
        /\ currentPath # None
        /\ \A m \in 1..3 : currentPath \in PathsOf(AllSets[m].items)

\* C4: rescan reconciliation.  When a rescan of the loaded folder has
\* completed (and no navigation removed anything meanwhile), each of the
\* three sets holds exactly the files the rescan discovered.
RescanReconciliation ==
    (scan.kind = "reloads" /\ last.op = "finish" /\ ~scan.navigated) =>
        \A m \in 1..3 : PathsOf(AllSets[m].items) = scan.found

\* C5: a rescan preserves the current position.  When a rescan triggered
\* while P was current has completed, with no navigation in between and P
\* neither deleted nor damaged, currentPath is P again.
RescanPreservesPosition ==
    (/\ scan.kind = "reloads"
     /\ last.op = "finish"
     /\ ~scan.navigated
     /\ ~scan.changed
     /\ Loads(scan.of)) => currentPath = scan.of

\* C5 witness: a rescan has completed on a file that is not the first one
\* the scan discovers in a folder of several, and that file is current.
RescanPreservesPositionWitness ==
    /\ scan.kind = "reloads"
    /\ last.op = "finish"
    /\ ~scan.navigated
    /\ ~scan.changed
    /\ Loads(scan.of)
    /\ currentPath = scan.of
    /\ \E q \in scan.found : DirPos(q) < DirPos(scan.of)

\* what C6 asks of a handler that walks the set bound under name by step:
\* when the first k-1 candidates fail to load and the k-th loads, the k-th
\* is current afterwards and exactly the k-1 failed ones have left each set
SelfHealingStep(name, step) ==
    LET s == PathSeq(name)
        n == FosLen(Order(Viewer, name))
        i == Position(name)
    IN \A k \in 2..n :
          (/\ i > 0
           /\ MayReach(i, step, n, k)
           /\ \A j \in 1..(k - 1) : ~Loads(s[Place(i, step, n, j)])
           /\ Loads(s[Place(i, step, n, k)]))
          => LET failedPaths == {s[Place(i, step, n, j)] : j \in 1..(k - 1)}
             IN /\ currentPath' = s[Place(i, step, n, k)]
                /\ PathsOf(mtimeOrderSet'.items) = Members \ failedPaths
                /\ PathsOf(randomOrderSet'.items) = Members \ failedPaths
                /\ PathsOf(fnameOrderSet'.items) = Members \ failedPaths
                /\ FosLen(mtimeOrderSet') = n - (k - 1)
                /\ FosLen(randomOrderSet') = n - (k - 1)
                /\ FosLen(fnameOrderSet') = n - (k - 1)

\* C6: self-healing navigation.  When the candidates of a navigation step
\* fail to load but a later candidate in the same direction loads, the step
\* ends on the first candidate that loads, exactly the failed candidates
\* have been removed from all three sets and no other member is removed.
\* Each handler is taken in the direction its loop walks.
SelfHealingNavigation ==
    [][/\ (last'.op = "hnext" /\ horizontalNextImage)
             => SelfHealingStep(horizontalOrderSet, 1)
       /\ (last'.op = "hprev" /\ horizontalPreviousImage)
             => SelfHealingStep(horizontalOrderSet, -1)
       /\ (last'.op = "vprev" /\ verticalPreviousImage)
             => SelfHealingStep(verticalOrderSet, 1)
       /\ (last'.op = "vnext" /\ verticalNextImage)
             => SelfHealingStep(verticalOrderSet, -1)]_vars

\* C6 witness: a navigation step has removed one failed candidate from a
\* working set of three and has landed on a file that loads.
SelfHealingNavigationWitness ==
    /\ last.op \in NavOps
    /\ Cardinality(last.failed) = 1
    /\ last.moved
    /\ currentPath # None
    /\ currentPath \notin last.failed
    /\ Loads(currentPath)
    /\ \A m \in 1..3 : FosLen(AllSets[m]) = 2
    /\ \A m \in 1..3 : PathsOf(AllSets[m].items) \cap last.failed = {}

\* C7: wraparound guard for next.  For an order of n >= 2 files that all
\* load, bound to the horizontal axis, next(horizontal) from the last
\* position leaves currentPath and the three sets unchanged when loop is
\* disabled, and makes the file at position 0 current when loop is enabled.
WraparoundGuard ==
    [][(/\ FosLen(Order(Viewer, horizontalOrderSet)) >= 2
        /\ Position(horizontalOrderSet) = FosLen(Order(Viewer, horizontalOrderSet))
        /\ AllLoad
        /\ last'.op = "hnext"
        /\ horizontalNextImage)
       => IF ~loopScroll
          THEN UNCHANGED <<currentPath, setVars>>
          ELSE currentPath' = PathSeq(horizontalOrderSet)[1]]_vars

\* C7 witness: with loop enabled, next(horizontal) has moved to position 0
\* of an order of at least two files that all load.
WraparoundGuardWitness ==
    /\ last.op = "hnext"
    /\ last.moved
    /\ last.failed = {}
    /\ loopScroll
    /\ AllLoad
    /\ FosLen(Order(Viewer, horizontalOrderSet)) >= 2
    /\ Position(horizontalOrderSet) = 1

\* what C8 asks of a previous handler on the set bound under name
PreviousStep(name) ==
    LET s == PathSeq(name)
        n == FosLen(Order(Viewer, name))
        i == Position(name)
    IN (n >= 2 /\ AllLoad /\ i > 0)
       => IF i > 1 THEN currentPath' = s[i - 1]
          ELSE IF ~loopScroll THEN UNCHANGED <<currentPath, setVars>>
          ELSE currentPath' = s[n]

\* C8: previous is the mirror of next.  For an order of n >= 2 files that
\* all load, previous(axis) from position i > 0 makes the file at i-1
\* current; from position 0 it changes nothing when loop is disabled and
\* makes the file at position n-1 current when loop is enabled.
PreviousMirrorsNext ==
    [][/\ (last'.op = "hprev" /\ horizontalPreviousImage)
             => PreviousStep(horizontalOrderSet)
       /\ (last'.op = "vprev" /\ verticalPreviousImage)
             => PreviousStep(verticalOrderSet)]_vars

\* C9: vertical scenario.  With the vertical axis bound to the by-mtime
\* order (newest first), all files loadable and loop disabled, each
\* next(vertical) moves from position i to position i+1, and from the
\* last position (the oldest file) it leaves the position unchanged.
VerticalScenario ==
    [][(/\ verticalOrderSet = "mtime"
        /\ ~loopScroll
        /\ AllLoad
        /\ Position("mtime") > 0
        /\ last'.op = "vnext"
        /\ verticalNextImage)
       => IF Position("mtime") < FosLen(mtimeOrderSet)
          THEN currentPath' = PathSeq("mtime")[Position("mtime") + 1]
          ELSE currentPath' = currentPath]_vars

\* C10: rescan after the current file vanished.  When the rescan triggered
\* on file C has completed without finding C (C is deleted), C is gone
\* from all three sets and the count is one less than before the rescan;
\* the navigation that follows raises no error and lands on a member
\* other than C.
RescanAfterCurrentVanished ==
    (/\ scan.kind = "reloads"
     /\ ~lazyLoadingInProgress
     /\ scan.of \notin scan.found
     /\ ~fs[scan.of].exists)
    => /\ ~error
       /\ (last.op = "finish" /\ ~scan.navigated)
          => /\ \A m \in 1..3 : scan.of \notin PathsOf(AllSets[m].items)
             /\ Cardinality(Members) = Cardinality(scan.before) - 1
       /\ (last.op \in NavOps /\ last.moved /\ currentPath # None)
          => currentPath \in Members \ {scan.of}

(***************************************************************************)
(* The axis buttons on their own: toggled_order is applied, through        *)
(* onVScrollClicked and onHScrollClicked, to every pair of order names,    *)
(* over working sets of zero to three files.                               *)
(***************************************************************************)
\* clicks on the axis buttons in one run
MaxToggles == 2

\* the records of the first n entries of folder 1, in directory order
FirstEntries(n) ==
    [k \in 1..n |->
        LET p == CHOOSE q \in 1..3 : DirPos(q) = k - 1
        IN Generate(2, p, InitMtime(p))]

ToggleInit ==
    /\ \E n \in 0..3 :
          /\ mtimeOrderSet = FosUpdate(NewSet("mtime"), FirstEntries(n))
          /\ randomOrderSet = FosUpdate(NewSet("random"), FirstEntries(n))
          /\ fnameOrderSet = FosUpdate(NewSet("fname"), FirstEntries(n))
          /\ currentPath = IF n = 0 THEN None ELSE FirstEntries(n)[1].path_nf
    /\ verticalOrderSet \in OrderNames
    /\ horizontalOrderSet \in OrderNames
    /\ selected_file_path = None
    /\ lazyLoadingInProgress = FALSE
    /\ loopScroll \in BOOLEAN
    /\ pseudo_random_seed \in Seeds
    /\ worker = [pc |-> "idle", folder |-> None, filePath |-> None,
                 todo |-> {}, data |-> <<>>]
    /\ signals = <<>>
    /\ fs = [p \in Paths |->
               [exists |-> (p # MaxFiles), mtime |-> InitMtime(p), ok |-> TRUE,
                denied |-> FALSE]]
    /\ error = FALSE
    /\ scan = NoScan
    /\ last = [op |-> "init", moved |-> FALSE, failed |-> {}]
    /\ budget = [opens |-> 0, reloads |-> 0, fs |-> 0, clicks |-> MaxToggles]

ToggleNext ==
    \/ onVScrollClicked
    \/ onHScrollClicked

ToggleSpec == ToggleInit /\ [][ToggleNext]_vars

\* the cycle of the order names, and the name that follows a name in it
OrderCycle == <<"mtime", "random", "fname">>
After(name) ==
    LET k == CHOOSE j \in 1..3 : OrderCycle[j] = name
    IN OrderCycle[(k % 3) + 1]

\* the first name after current in the cycle that is different from other
FirstAfterNot(current, other) ==
    IF After(current) # other THEN After(current) ELSE After(After(current))

Consistent(s) ==
    /\ DOMAIN s.index_map = PathsOf(s.items)
    /\ Len(s.keys) = Len(s.items)
    /\ Cardinality(PathsOf(s.items)) = Len(s.items)

\* C12: idempotent add.  After add(x) has run, a second add(x) leaves the
\* positional sequence, the key index and the lookup table of each set as
\* they are; and add of a record whose path is already present changes
\* nothing.
IdempotentAdd ==
    [][\A x \in SetRecords :
          (last'.op = "add" /\ SetAdd(x))
          => /\ FosAdd(mtimeOrderSet', x) = mtimeOrderSet'
             /\ FosAdd(randomOrderSet', x) = randomOrderSet'
             /\ FosAdd(fnameOrderSet', x) = fnameOrderSet'
             /\ (\A m \in 1..3 : x.path_nf \in DOMAIN AllSets[m].index_map)
                   => UNCHANGED setVars]_vars

\* C12 witness: add has run and has left two files in each of the three
\* sets, whose structures agree.
IdempotentAddWitness ==
    /\ last.op = "add"
    /\ ~error
    /\ \A m \in 1..3 : FosLen(AllSets[m]) = 2
    /\ \A m \in 1..3 : Consistent(AllSets[m])

\* C13: idempotent remove.  remove(x) followed by remove(x) raises no
\* error: a remove that starts without error ends without error, a second
\* remove(x) after it changes nothing, and remove of a record whose path
\* is absent is a silent no-op.
IdempotentRemove ==
    [][\A x \in SetRecords :
          (last'.op = "remove" /\ SetRemove(x) /\ ~error)
          => /\ ~error'
             /\ FosRemove(mtimeOrderSet', x) = [set |-> mtimeOrderSet', err |-> FALSE]
             /\ FosRemove(randomOrderSet', x) = [set |-> randomOrderSet', err |-> FALSE]
             /\ FosRemove(fnameOrderSet', x) = [set |-> fnameOrderSet', err |-> FALSE]
             /\ (\A m \in 1..3 : x.path_nf \notin DOMAIN AllSets[m].index_map)
                   => UNCHANGED setVars]_vars

\* C14: remove is consistent across the internal structures.  For every
\* record passed to remove whose path is present, whatever its other
\* fields, remove does not fail and afterwards the path is absent from the
\* lookup table and from the positional sequence, one key is gone from the
\* key index, and the three structures describe the same membership.
RemoveConsistent ==
    [][\A x \in SetRecords :
          (/\ last'.op = "remove"
           /\ SetRemove(x)
           /\ ~error
           /\ \A m \in 1..3 : x.path_nf \in DOMAIN AllSets[m].index_map)
          => /\ ~error'
             /\ \A m \in 1..3 :
                   /\ x.path_nf \notin DOMAIN (AllSets[m].index_map)'
                   /\ x.path_nf \notin PathsOf((AllSets[m].items)')
                   /\ Len((AllSets[m].keys)') = Len(AllSets[m].keys) - 1
                   /\ Consistent(AllSets[m])']_vars

(***************************************************************************)
(* The sets with their two lookups: index(value) and __getitem__(index)    *)
(* are called on the three sets between any adds, removes and clears, and  *)
(* what they return is kept in last.                                       *)
(***************************************************************************)
\* the paths asked for: those offered to the sets and one never offered
LookupPaths == 1..(MaxSetPaths + 1)
\* the positions asked for: from before -len to past the end
LookupPositions == ((-1) * (MaxSetLen + 1))..MaxSetLen

SetIndexOf(value) ==
    /\ last' = [op |-> "index", moved |-> FALSE, failed |-> {}, arg |-> value,
                result |-> [m \in 1..3 |-> FosIndex(AllSets[m], value)]]
    /\ UNCHANGED <<setVars, error>>
    /\ SetUnchanged

SetAt(position) ==
    /\ last' = [op |-> "at", moved |-> FALSE, failed |-> {}, arg |-> position,
                result |-> [m \in 1..3 |-> FosGet(AllSets[m], position)]]
    /\ UNCHANGED <<setVars, error>>
    /\ SetUnchanged

LookupNext ==
    \/ \E item \in SetRecords : SetAdd(item)
    \/ \E item \in SetRecords : SetRemove(item)
    \/ SetClear
    \/ \E value \in LookupPaths : SetIndexOf(value)
    \/ \E position \in LookupPositions : SetAt(position)

LookupSpec == SetInit /\ [][LookupNext]_vars

\* C15: round-trip positional lookup.  In every reachable set state, for
\* every member x, at(indexOf(x.path)) is x, and for every valid position
\* p, indexOf(at(p).path) is p.
RoundTripLookup ==
    \A m \in 1..3 :
       \A k \in 1..FosLen(AllSets[m]) :
          LET s == AllSets[m]
              x == s.items[k]
          IN /\ FosIndex(s, x.path_nf) >= 0
             /\ ~FosGet(s, FosIndex(s, x.path_nf)).err
             /\ FosGet(s, FosIndex(s, x.path_nf)).item = x
             /\ ~FosGet(s, k - 1).err
             /\ FosIndex(s, FosGet(s, k - 1).item.path_nf) = k - 1

\* C16: indexOf of a path that is not a member fails with ValueError (-1
\* here) and leaves the set unchanged; it never returns a position for a
\* non-member.
IndexOfNonMember ==
    [][\A value \in LookupPaths :
          (last'.op = "index" /\ SetIndexOf(value))
          => /\ UNCHANGED setVars
             /\ \A m \in 1..3 :
                   value \notin PathsOf(AllSets[m].items) => last'.result[m] = -1]_vars

\* C16 witness: index was asked for a path that is in none of the sets
\* while they hold two files, and failed on all three.
IndexOfNonMemberWitness ==
    /\ last.op = "index"
    /\ ~error
    /\ \A m \in 1..3 : FosLen(AllSets[m]) = 2
    /\ \A m \in 1..3 : last.arg \notin PathsOf(AllSets[m].items)
    /\ \A m \in 1..3 : last.result[m] = -1

\* C17 as stated: at(position) returns a record only for 0 <= position <
\* size, and fails with an index-out-of-range error for every position
\* outside that range, negative or >= size.
AtZeroBased ==
    (last.op = "at") =>
       \A m \in 1..3 :
          IF 0 <= last.arg /\ last.arg < FosLen(AllSets[m])
          THEN /\ ~last.result[m].err
               /\ last.result[m].item = AllSets[m].items[last.arg + 1]
          ELSE last.result[m].err

\* C17 amended: at(position) returns the record at position for 0 <=
\* position < size and, as a Python list does, the record at size + position
\* for -size <= position < 0; for every position below -size or >= size
\* it fails with an index-out-of-range error and returns no record.
AtListIndex ==
    (last.op = "at") =>
       \A m \in 1..3 :
          LET n == FosLen(AllSets[m])
          IN IF 0 <= last.arg /\ last.arg < n
             THEN /\ ~last.result[m].err
                  /\ last.result[m].item = AllSets[m].items[last.arg + 1]
             ELSE IF (-1) * n <= last.arg /\ last.arg < 0
             THEN /\ ~last.result[m].err
                  /\ last.result[m].item = AllSets[m].items[n + last.arg + 1]
             ELSE /\ last.result[m].err
                  /\ last.result[m].item = None

\* C17 witness: at was asked for position -1 of sets of two files and
\* answered their last record.
AtListIndexWitness ==
    /\ last.op = "at"
    /\ last.arg = -1
    /\ ~error
    /\ \A m \in 1..3 : FosLen(AllSets[m]) = 2
    /\ \A m \in 1..3 : ~last.result[m].err
    /\ \A m \in 1..3 : last.result[m].item = AllSets[m].items[2]

(***************************************************************************)
(* The navigation handlers on their own: they are called on a working set  *)
(* of one to three files of folder 1, of which any subset fails to load,   *)
(* with any file or none current, loop checked or not.                     *)
(***************************************************************************)
NavInit ==
    /\ \E n \in 1..3 :
          /\ mtimeOrderSet = FosUpdate(NewSet("mtime"), FirstEntries(n))
          /\ randomOrderSet = FosUpdate(NewSet("random"), FirstEntries(n))
          /\ fnameOrderSet = FosUpdate(NewSet("fname"), FirstEntries(n))
          /\ currentPath \in PathsOf(FirstEntries(n)) \cup {None}
    /\ verticalOrderSet = "mtime"
    /\ horizontalOrderSet = "random"
    /\ selected_file_path = None
    /\ lazyLoadingInProgress = FALSE
    /\ loopScroll \in BOOLEAN
    /\ pseudo_random_seed \in Seeds
    /\ worker = [pc |-> "idle", folder |-> None, filePath |-> None,
                 todo |-> {}, data |-> <<>>]
    /\ signals = <<>>
    /\ \E bad \in SUBSET (1..3) :
          fs = [p \in Paths |->
                  [exists |-> (p # MaxFiles), mtime |-> InitMtime(p),
                   ok |-> (p \notin bad), denied |-> FALSE]]
    /\ error = FALSE
    /\ scan = NoScan
    /\ last = [op |-> "init", moved |-> FALSE, failed |-> {}]
    /\ budget = [opens |-> 0, reloads |-> 0, fs |-> 0, clicks |-> 0]

NavNext ==
    \/ verticalPreviousImage
    \/ verticalNextImage
    \/ horizontalNextImage
    \/ horizontalPreviousImage

NavSpec == NavInit /\ [][NavNext]_vars

\* what C18 as stated asks of a handler that walks the set bound under
\* name by step
TerminatesAndEmpties(name, step) ==
    /\ Navigate(Viewer, name, step).attempts <= FosLen(mtimeOrderSet)
    /\ (\A p \in Members : ~Loads(p))
          => /\ \A m \in 1..3 : FosLen(AllSets[m]') = 0
             /\ currentPath' = None

\* C18 as stated: every call of next or previous on either axis, with loop
\* enabled or disabled and for any subset of files that fail to load,
\* finishes after at most n load attempts, n the size of the working set
\* at the call; if every file fails the working set ends empty and
\* currentPath is none.
NavigationEmpties ==
    [][/\ (last'.op = "hnext" /\ horizontalNextImage)
             => TerminatesAndEmpties(horizontalOrderSet, 1)
       /\ (last'.op = "hprev" /\ horizontalPreviousImage)
             => TerminatesAndEmpties(horizontalOrderSet, -1)
       /\ (last'.op = "vprev" /\ verticalPreviousImage)
             => TerminatesAndEmpties(verticalOrderSet, 1)
       /\ (last'.op = "vnext" /\ verticalNextImage)
             => TerminatesAndEmpties(verticalOrderSet, -1)]_vars

\* what C18 as amended asks of the same handler
TerminatesAndEmptiesInLoop(name, step) ==
    /\ Navigate(Viewer, name, step).attempts <= FosLen(mtimeOrderSet)
    /\ (loopScroll /\ currentPath # None /\ \A p \in Members : ~Loads(p))
          => /\ \A m \in 1..3 : FosLen(AllSets[m]') = 0
             /\ currentPath' = None

\* C18 amended: every call of next or previous on either axis finishes
\* after at most n load attempts; if a file is current, loop is enabled
\* and every file fails, the working set ends empty and currentPath is
\* none.
NavigationTerminates ==
    [][/\ (last'.op = "hnext" /\ horizontalNextImage)
             => TerminatesAndEmptiesInLoop(horizontalOrderSet, 1)
       /\ (last'.op = "hprev" /\ horizontalPreviousImage)
             => TerminatesAndEmptiesInLoop(horizontalOrderSet, -1)
       /\ (last'.op = "vprev" /\ verticalPreviousImage)
             => TerminatesAndEmptiesInLoop(verticalOrderSet, 1)
       /\ (last'.op = "vnext" /\ verticalNextImage)
             => TerminatesAndEmptiesInLoop(verticalOrderSet, -1)]_vars

\* C18 witness: with loop enabled a handler has tried and removed all of
\* three files, and nothing is current.
NavigationTerminatesWitness ==
    /\ last.op \in NavOps
    /\ loopScroll
    /\ Cardinality(last.failed) = 3
    /\ \A m \in 1..3 : FosLen(AllSets[m]) = 0
    /\ currentPath = None

\* C19: opening a new folder while a scan is in progress cancels the old
\* scan.  Once a folder was asked for during a scan, the scan being served
\* is that folder's, and when no scan is in progress and no batch is
\* waiting the three sets hold only files of that folder.
OpenCancelsScan ==
    (scan.asked # None) =>
       /\ worker.folder = scan.asked
       /\ (~lazyLoadingInProgress /\ signals = <<>>)
             => \A m \in 1..3 :
                   \A p \in PathsOf(AllSets[m].items) : DirName(p) = scan.asked

\* every path is in all three sets or in none, in each of their structures
AppliedToAllOrNone ==
    \A p \in Paths :
       \/ \A m \in 1..3 : /\ p \in PathsOf(AllSets[m].items)
                          /\ p \in DOMAIN AllSets[m].index_map
       \/ \A m \in 1..3 : /\ p \notin PathsOf(AllSets[m].items)
                          /\ p \notin DOMAIN AllSets[m].index_map

\* C20: no partial reads.  Whatever the interleaving of the worker's
\* batches with navigation and toggle events, a navigation step or a toggle
\* starts from sets to which every batch and every removal so far has been
\* applied in all three or in none, and a navigation step and a batch
\* application leave them so.
NoPartialReads ==
    [][/\ (/\ last'.op \in NavOps
           /\ UNCHANGED <<worker, signals, fs, budget>>
           /\ \/ (last'.op = "hnext" /\ horizontalNextImage)
              \/ (last'.op = "hprev" /\ horizontalPreviousImage)
              \/ (last'.op = "vnext" /\ verticalNextImage)
              \/ (last'.op = "vprev" /\ verticalPreviousImage))
          => (AppliedToAllOrNone /\ AppliedToAllOrNone')
       /\ ((budget'.clicks # budget.clicks) /\ (onVScrollClicked \/ onHScrollClicked))
          => AppliedToAllOrNone
       /\ ((last'.op = "batch") /\ Len(signals') < Len(signals) /\ handleNewImage)
          => AppliedToAllOrNone']_vars

\* C20 witness: a navigation step has moved the position while the scan was
\* in progress and a batch with a file not yet in the sets was waiting.
NoPartialReadsWitness ==
    /\ last.op \in NavOps
    /\ last.moved
    /\ lazyLoadingInProgress
    /\ signals # <<>>
    /\ Head(signals).type = "imageLoaded"
    /\ PathsOf(Head(signals).data) \ Members # {}
    /\ AppliedToAllOrNone

(***************************************************************************)
(* The scan on its own: folders and files are opened, the worker scans,    *)
(* the two slots apply what it emits, and meanwhile files are deleted or   *)
(* become files whose stat raises.  Nobody navigates.                      *)
(***************************************************************************)
\* file-system changes in one run of the scan
MaxScanFsEvents == 2

ScanBudgets ==
    {[opens |-> MaxOpens, reloads |-> 0, fs |-> MaxScanFsEvents - 1, clicks |-> 0],
     [opens |-> 1, reloads |-> 0, fs |-> MaxScanFsEvents, clicks |-> 0]}

ScanInit == InitViewer /\ budget \in ScanBudgets

ScanNext ==
    \/ \E folder \in Folders : openFolder(folder)
    \/ \E filePath \in Paths : openFile(filePath)
    \/ WorkerFile
    \/ WorkerScanDir
    \/ \E p \in Paths, elapsed \in BOOLEAN : WorkerEntry(p, elapsed)
    \/ WorkerFinish
    \/ handleNewImage
    \/ finishLoadingImages
    \/ \E p \in Paths : FsDelete(p)
    \/ \E p \in Paths : FsDeny(p)

ScanSpec == ScanInit /\ [][ScanNext]_vars

\* the files of the folder of the scan whose stat succeeds
StatSucceeds == {p \in Paths : DirName(p) = worker.folder /\ IsFile(p)}

\* the files emitted so far: in a batch that waits, or applied to the sets
Delivered ==
    Members \cup UNION {PathsOf(signals[k].data) : k \in 1..Len(signals)}

\* C21: eventual delivery.  When the scan-complete handler has run, every
\* file of the scanned folder whose stat succeeds is a member of all three
\* sets.
EventualDelivery ==
    (last.op = "finish") =>
        \A p \in StatSucceeds :
            \A m \in 1..3 : p \in PathsOf(AllSets[m].items)

\* C22: a directory entry whose stat fails does not abort the scan.  When
\* the worker has left the scan, every file of the folder whose stat
\* succeeds has been emitted in a batch, and the scan-complete signal has
\* been emitted.
StatFailureDropped ==
    (worker.pc = "idle" /\ worker.folder # None) =>
        /\ StatSucceeds \subseteq Delivered
        /\ lazyLoadingInProgress =>
              \E k \in 1..Len(signals) : signals[k].type = "finishedLoading"

\* a FastOrderedSet after clear()
Cleared(s) == s.items = <<>> /\ s.keys = <<>> /\ DOMAIN s.index_map = {}

\* C23: a folder switch clears the working set.  A load accepted for a
\* folder that is not the directory of the current file, or with no
\* current file, empties the three sets, and one accepted for the
\* directory of the current file leaves them as they are; the members are
\* always files of the folder of the last accepted load.
FolderSwitchClears ==
    /\ [](\A m \in 1..3 :
             \A p \in PathsOf(AllSets[m].items) : DirName(p) = worker.folder)
    /\ [][(~lazyLoadingInProgress /\ lazyLoadingInProgress') =>
             IF currentPath = None \/ DirName(currentPath) # worker'.folder
             THEN \A m \in 1..3 : Cleared(AllSets[m]')
             ELSE UNCHANGED setVars]_vars

\* A load has just been accepted for a folder other than the one whose
\* files were the members: it has taken them out and the sets are empty.
FolderSwitchClearsWitness ==
    /\ last.op = "load"
    /\ last.moved
    /\ last.failed # {}
    /\ \A p \in last.failed : DirName(p) # worker.folder
    /\ \A m \in 1..3 : Cleared(AllSets[m])

(***************************************************************************)
(* ImageData.generate on its own: records are derived, one after another,  *)
(* from ImageFiles with any name, inode number (0 for a file system that   *)
(* has none) and times, and the session seed may be drawn again            *)
(* (refresh_random_seed).                                                  *)
(***************************************************************************)
MaxKeyInode == 2
MaxKeyNames == 2

KeySeeds == {1, 2}

ImageFiles ==
    [name : 1..MaxKeyNames, path_nf : 1..MaxKeyNames,
     stat_result : [st_ino : 0..MaxKeyInode, st_ctime : 1..MaxKeyTime,
                    st_mtime : 1..MaxKeyTime]]

KeyInit ==
    /\ SetInit
    /\ pseudo_random_seed \in KeySeeds

\* one derivation, of the two a run holds; worker.data keeps what was
\* derived, from what and with which seed
KeyGenerate(imagefile) ==
    /\ Len(worker.data) < 2
    /\ imagefile.path_nf = imagefile.name
    /\ worker' = [worker EXCEPT !.data =
                     Append(@, [seed |-> pseudo_random_seed, file |-> imagefile,
                                data |-> generate(pseudo_random_seed, imagefile)])]
    /\ UNCHANGED <<setVars, axisVars, currentPath, selected_file_path,
                   lazyLoadingInProgress, loopScroll, pseudo_random_seed, signals,
                   fs, error, budget, scan, last>>

\* loadImagesFromFolder with refresh_random_seed
KeyReseed ==
    /\ \E seed \in KeySeeds \ {pseudo_random_seed} : pseudo_random_seed' = seed
    /\ UNCHANGED <<setVars, axisVars, currentPath, selected_file_path,
                   lazyLoadingInProgress, loopScroll, worker, signals, fs, error,
                   budget, scan, last>>

KeyNext ==
    \/ \E imagefile \in ImageFiles : KeyGenerate(imagefile)
    \/ KeyReseed

KeySpec == KeyInit /\ [][KeyNext]_vars

\* the identity token of a file: the inode when positive, otherwise the
\* name plus the creation time
IdentityToken(imagefile) ==
    IF imagefile.stat_result.st_ino > 0
    THEN [ino |-> imagefile.stat_result.st_ino, name |-> 0, ctime |-> 0]
    ELSE [ino |-> 0, name |-> imagefile.name,
          ctime |-> imagefile.stat_result.st_ctime]

\* C24: deterministic random key.  Two derivations with the same seed and
\* the same identity token yield the same random key, and so the same key
\* of the by-random order.
DeterministicRandomKey ==
    \A i, j \in 1..Len(worker.data) :
        LET a == worker.data[i]
            b == worker.data[j]
        IN (a.seed = b.seed /\ IdentityToken(a.file) = IdentityToken(b.file))
              => /\ a.data.pseudo_random_hash = b.data.pseudo_random_hash
                 /\ KeyOf("random", a.data) = KeyOf("random", b.data)

\* Two derivations with one seed from files with one identity token whose
\* modification times differ have given one key.
DeterministicRandomKeyWitness ==
    /\ Len(worker.data) = 2
    /\ worker.data[1].seed = worker.data[2].seed
    /\ IdentityToken(worker.data[1].file) = IdentityToken(worker.data[2].file)
    /\ worker.data[1].file.stat_result.st_mtime
          # worker.data[2].file.stat_result.st_mtime
    /\ worker.data[1].data.pseudo_random_hash = worker.data[2].data.pseudo_random_hash

\* C25: opening a file displays that file.  When the scan of a load that
\* was asked for a file has completed and nobody has navigated, that file,
\* if its stat succeeds and it decodes, is the current one.
OpenFileDisplays ==
    (/\ last.op = "finish"
     /\ worker.filePath # None
     /\ Loads(worker.filePath))
        => currentPath = worker.filePath

\* The second load of a run, with the file system as it was at the start:
\* it was asked for a file that is not the first entry of its directory,
\* its scan has completed with more than one file delivered, and that file
\* is current.
OpenFileDisplaysWitness ==
    /\ last.op = "finish"
    /\ budget.opens = 0
    /\ budget.fs = MaxScanFsEvents - 1
    /\ scan.asked = None
    /\ \A p \in Paths : fs[p].exists = (p # MaxFiles) /\ ~fs[p].denied
    /\ worker.filePath # None
    /\ DirPos(worker.filePath) # 0
    /\ FosLen(mtimeOrderSet) > 1
    /\ currentPath = worker.filePath

\* what C26 asks of a handler that walks the set bound under name by step
NoOpWithoutPosition(name, step) ==
    (Members = {} \/ currentPath = None)
        => /\ UNCHANGED <<setVars, axisVars, currentPath>>
           /\ Navigate(Viewer, name, step).attempts = 0

\* C26: when the working set is empty or currentPath is none, next and
\* previous on either axis are no-ops: currentPath, the three sets and the
\* axis bindings are unchanged and no load is attempted.
NavigationNoOp ==
    [][/\ (last'.op = "hnext" /\ horizontalNextImage)
             => NoOpWithoutPosition(horizontalOrderSet, 1)
       /\ (last'.op = "hprev" /\ horizontalPreviousImage)
             => NoOpWithoutPosition(horizontalOrderSet, -1)
       /\ (last'.op = "vprev" /\ verticalPreviousImage)
             => NoOpWithoutPosition(verticalOrderSet, 1)
       /\ (last'.op = "vnext" /\ verticalNextImage)
             => NoOpWithoutPosition(verticalOrderSet, -1)]_vars

\* A handler has run with no file current over a working set of several
\* files, one of which decodes: it has removed nothing and nothing is
\* current.
NavigationNoOpWitness ==
    /\ last.op \in NavOps
    /\ ~last.moved
    /\ last.failed = {}
    /\ currentPath = None
    /\ FosLen(mtimeOrderSet) > 1
    /\ \E p \in Members : Loads(p)

\* C27: batch shape.  Every batch the worker emits is non-empty and holds
\* at most BatchLimit records (100 in the source), and a batch is emitted
\* as soon as the records gathered reach that number: the worker never
\* holds that many between two entries.
BatchShape ==
    /\ \A k \in 1..Len(signals) :
          signals[k].type = "imageLoaded"
             => (Len(signals[k].data) >= 1 /\ Len(signals[k].data) <= BatchLimit)
    /\ Len(worker.data) < BatchLimit

\* The worker is in the middle of a directory, has emitted a batch of
\* exactly BatchLimit records and has started the next batch afresh.
BatchShapeWitness ==
    /\ worker.pc = "scan"
    /\ worker.todo # {}
    /\ worker.data = <<>>
    /\ signals # <<>>
    /\ signals[Len(signals)].type = "imageLoaded"
    /\ Len(signals[Len(signals)].data) = BatchLimit

\* the places of the scan-complete signals in the queue
Completions == {k \in 1..Len(signals) : signals[k].type = "finishedLoading"}

\* C28: scan-complete ordering.  While the worker runs no scan-complete
\* signal has been emitted; once run() has ended, by its last line or by an
\* exception, exactly one has been emitted, after every batch, and it waits
\* until its handler runs; after that handler no batch is left to apply.
ScanCompleteOrdering ==
    /\ (worker.pc \in {"file", "scandir", "scan"}) => Completions = {}
    /\ (worker.pc \in {"idle", "dead"} /\ lazyLoadingInProgress)
          => Completions = {Len(signals)}
    /\ ~lazyLoadingInProgress => signals = <<>>

\* the records of t stored for the paths of s, in the order of t, are the
\* records of s in the order of s
Retained(s, t) ==
    LET Old(r) == r.path_nf \in PathsOf(s.items)
    IN /\ SelectSeq(t.items, Old) = s.items
       /\ \A p \in DOMAIN s.index_map :
             p \in DOMAIN t.index_map /\ t.index_map[p] = s.index_map[p]

\* C29: a rescan leaves retained paths untouched.  A batch changes neither
\* the stored record of a path that was a member before it, nor its place
\* among the other such members, in any of the three orders, whatever
\* record the batch carries for it.
RescanLeavesRetained ==
    [][(last'.op = "batch" /\ Len(signals') < Len(signals) /\ handleNewImage)
          => \A m \in 1..3 : Retained(AllSets[m], AllSets[m]')]_vars

\* A rescan has found again, with a new modification time, a file that was
\* a member before it; its batches are applied and the sets still hold the
\* record with the old time.
RescanLeavesRetainedWitness ==
    /\ last.op = "batch"
    /\ scan.kind = "reloads"
    /\ signals = <<>>
    /\ \E p \in scan.before \cap scan.found :
          /\ p \in DOMAIN mtimeOrderSet.index_map
          /\ fs[p].exists
          /\ mtimeOrderSet.index_map[p].st_mtime # fs[p].mtime

\* C30: in every reachable state currentPath is none or a path that is a
\* member of all three sets, in their lists and in their lookup tables; so
\* no handler has been ended by the ValueError of index, and when the
\* working set is empty currentPath is none.
CurrentIsMember ==
    /\ currentPath # None
          => \A m \in 1..3 : /\ currentPath \in PathsOf(AllSets[m].items)
                             /\ currentPath \in DOMAIN AllSets[m].index_map
    /\ ~error
    /\ (\E m \in 1..3 : FosLen(AllSets[m]) = 0) => currentPath = None

\* A navigation handler has taken the last member, which did not load,
\* out of the sets: the working set is empty and nothing is current.
CurrentIsMemberWitness ==
    /\ last.op \in NavOps
    /\ last.failed # {}
    /\ \A m \in 1..3 : FosLen(AllSets[m]) = 0
    /\ currentPath = None

(***************************************************************************)
(* The axis buttons from the bindings of ImageViewer.__init__: vertical by *)
(* mtime, horizontal by random, over working sets of zero to three files.  *)
(***************************************************************************)
\* clicks on the axis buttons in one run
MaxBindingClicks == 6

BindingInit ==
    /\ \E n \in 0..3 :
          /\ mtimeOrderSet = FosUpdate(NewSet("mtime"), FirstEntries(n))
          /\ randomOrderSet = FosUpdate(NewSet("random"), FirstEntries(n))
          /\ fnameOrderSet = FosUpdate(NewSet("fname"), FirstEntries(n))
          /\ currentPath = IF n = 0 THEN None ELSE FirstEntries(n)[1].path_nf
    /\ verticalOrderSet = "mtime"
    /\ horizontalOrderSet = "random"
    /\ selected_file_path = None
    /\ lazyLoadingInProgress = FALSE
    /\ loopScroll \in BOOLEAN
    /\ pseudo_random_seed \in Seeds
    /\ worker = [pc |-> "idle", folder |-> None, filePath |-> None,
                 todo |-> {}, data |-> <<>>]
    /\ signals = <<>>
    /\ fs = [p \in Paths |->
               [exists |-> (p # MaxFiles), mtime |-> InitMtime(p), ok |-> TRUE,
                denied |-> FALSE]]
    /\ error = FALSE
    /\ scan = NoScan
    /\ last = [op |-> "init", moved |-> FALSE, failed |-> {}]
    /\ budget = [opens |-> 0, reloads |-> 0, fs |-> 0, clicks |-> MaxBindingClicks]

BindingNext ==
    \/ onVScrollClicked
    \/ onHScrollClicked

BindingSpec == BindingInit /\ [][BindingNext]_vars

\* C31: in every state reached from the initial binding by toggles on
\* either axis, the two axes are bound to different orders.
AxesDiffer == verticalOrderSet # horizontalOrderSet

\* Toggles on both axes have exchanged the initial bindings: vertical is
\* by random and horizontal by mtime.
AxesDifferWitness ==
    /\ Members # {}
    /\ budget.clicks < MaxBindingClicks - 1
    /\ verticalOrderSet = "random"
    /\ horizontalOrderSet = "mtime"

\* C32: a toggle of an axis while the working set is empty leaves the
\* binding of that axis unchanged; with a non-empty working set it changes
\* the binding of the toggled axis; in both cases the other axis,
\* currentPath and the three sets are unchanged.
ToggleFrame ==
    [][/\ onVScrollClicked
             => /\ (verticalOrderSet' # verticalOrderSet) <=> (Members # {})
                /\ UNCHANGED <<horizontalOrderSet, currentPath, setVars>>
       /\ onHScrollClicked
             => /\ (horizontalOrderSet' # horizontalOrderSet) <=> (Members # {})
                /\ UNCHANGED <<verticalOrderSet, currentPath, setVars>>]_vars

\* One click, on the vertical axis of a non-empty working set with a
\* current file: vertical has left by-mtime for by-name, horizontal is
\* still by random.
ToggleFrameWitness ==
    /\ budget.clicks = MaxBindingClicks - 1
    /\ Members # {}
    /\ currentPath # None
    /\ verticalOrderSet = "fname"
    /\ horizontalOrderSet = "random"

\* what C33 asks of a handler that has walked the set bound under name by
\* step: the handler of the other direction, run next, makes the former
\* file current again
UndoneByOpposite(name, step) ==
    (AllLoad /\ currentPath' # currentPath)
        => Navigate(Viewer', name, (-1) * step).currentPath = currentPath

\* C33: next and previous are inverse on each axis.  When all files load
\* and a step on an axis changes currentPath, the opposite step on the same
\* axis, with the same binding and loop setting, restores the former
\* currentPath; for the horizontal and the vertical pair, in both orders.
NextPreviousInverse ==
    [][/\ (last'.op = "hnext" /\ horizontalNextImage)
             => UndoneByOpposite(horizontalOrderSet, 1)
       /\ (last'.op = "hprev" /\ horizontalPreviousImage)
             => UndoneByOpposite(horizontalOrderSet, -1)
       /\ (last'.op = "vprev" /\ verticalPreviousImage)
             => UndoneByOpposite(verticalOrderSet, 1)
       /\ (last'.op = "vnext" /\ verticalNextImage)
             => UndoneByOpposite(verticalOrderSet, -1)]_vars

\* With loop enabled and three files that load, horizontalNextImage has
\* moved from the last file of the order round to the first.
NextPreviousInverseWitness ==
    /\ last.op = "hnext"
    /\ last.moved
    /\ loopScroll
    /\ AllLoad
    /\ FosLen(Order(Viewer, horizontalOrderSet)) = 3
    /\ Position(horizontalOrderSet) = 1

\* the positional sequence, the key index and the lookup table of s agree
Aligned(s) ==
    /\ Len(s.keys) = Len(s.items)
    /\ Cardinality(DOMAIN s.index_map) = Len(s.items)
    /\ DOMAIN s.index_map = PathsOf(s.items)
    /\ \A i \in 1..Len(s.items) :
          i <= Len(s.keys) /\ s.keys[i] = KeyOf(s.key_func, s.items[i])

\* C34: internal alignment of a keyed FastOrderedSet.  After any sequence
\* of add, remove and clear the three structures have the same length, the
\* paths of the lookup table are the paths of the sequence, and the i-th
\* key is the key of the i-th record.
InternalAlignment == \A m \in 1..3 : Aligned(AllSets[m])

\* the same, for the sets no remove has left by an exception
InternalAlignmentWithoutError == ~error => InternalAlignment

\* item stands at position i of t, before every member of its key or a
\* larger one and after smaller keys only, and without it t reads as s
AddedLeftmost(s, t, item) ==
    LET key == KeyOf(s.key_func, item)
    IN \E i \in 1..Len(t.items) :
          /\ t.items[i] = item
          /\ ListPop(t.items, i - 1) = s.items
          /\ \A j \in 1..(i - 1) : KeyOf(s.key_func, t.items[j]) < key
          /\ \A j \in (i + 1)..Len(t.items) : KeyOf(s.key_func, t.items[j]) >= key

\* t is s, or s without one occurrence of item
RemovedInPlace(s, t, item) ==
    \/ t.items = s.items
    \/ \E i \in 1..Len(s.items) :
          s.items[i] = item /\ t.items = ListPop(s.items, i - 1)

\* C35: tie placement.  A record added to a set is inserted at the
\* leftmost position of the run of members with its key, the other members
\* keeping their order, so members of equal key stand in reverse order of
\* insertion; a remove takes one record out and keeps the others in their
\* relative order.
TiePlacement ==
    [][\A item \in SetRecords :
          /\ (last'.op = "add" /\ SetAdd(item)) =>
                \A m \in 1..3 :
                    item.path_nf \notin DOMAIN AllSets[m].index_map =>
                        AddedLeftmost(AllSets[m], AllSets[m]', item)
          /\ (last'.op = "remove" /\ SetRemove(item)) =>
                \A m \in 1..3 : RemovedInPlace(AllSets[m], AllSets[m]', item)]_vars

\* three records of one modification time, added in the order 2, 1, 3
TiePlacementWitness ==
    /\ last.op = "add"
    /\ ~error
    /\ Len(mtimeOrderSet.items) = 3
    /\ \A i \in 1..3 : mtimeOrderSet.items[i].st_mtime = 1
    /\ [i \in 1..3 |-> mtimeOrderSet.items[i].path_nf] = <<3, 1, 2>>

\* an open-folder, open-file, drop or rescan request
LoadRequest ==
    \/ \E folder \in Folders : openFolder(folder)
    \/ \E filePath \in Paths : openFile(filePath)
    \/ reloadCurrentFolder

\* C36: at most one scan at a time.  A request made while a scan is in
\* progress changes neither the sets, the current file, the seed nor the
\* in-progress flag and starts no worker; and whenever the flag is clear
\* the worker of the last scan has ended and none of its batches waits, so
\* the batches of two scans never interleave.
OneScanAtATime ==
    /\ [](~lazyLoadingInProgress => (worker.pc = "idle" /\ signals = <<>>))
    /\ [][(lazyLoadingInProgress /\ LoadRequest) =>
             UNCHANGED <<setVars, currentPath, pseudo_random_seed,
                         lazyLoadingInProgress, worker, signals>>]_vars

\* a folder was asked for while the scan of another had delivered a batch
OneScanAtATimeWitness ==
    /\ lazyLoadingInProgress
    /\ scan.asked # None
    /\ scan.asked # worker.folder
    /\ Members # {}
    /\ worker.pc # "idle"

(***************************************************************************)
(* The scan under its scheduling: the worker thread started at app.py:1074 *)
(* runs until run() ends, and the event loop of the GUI thread delivers    *)
(* every queued signal to its slot.                                        *)
(***************************************************************************)
WorkerStep ==
    \/ WorkerFile
    \/ WorkerScanDir
    \/ \E p \in Paths, elapsed \in BOOLEAN : WorkerEntry(p, elapsed)
    \/ WorkerFinish

ScanLiveSpec ==
    /\ ScanSpec
    /\ WF_vars(WorkerStep)
    /\ WF_vars(handleNewImage)
    /\ WF_vars(finishLoadingImages)

\* C37: scan liveness.  Whenever the in-progress flag is set, the
\* scan-complete handler eventually clears it, whatever happens to files
\* and directories meanwhile.
ScanLiveness == lazyLoadingInProgress ~> ~lazyLoadingInProgress

\* the same, but for the scans whose worker an exception has ended before
\* the try block of run()
ScanLivenessUnlessDead ==
    lazyLoadingInProgress ~> (~lazyLoadingInProgress \/ worker.pc = "dead")

(***************************************************************************)
(* SortedList alone: the key index of the by-mtime set, a SortedList       *)
(* (app.py:303), holds any sorted list of small numbers and takes add and  *)
(* remove calls.  last keeps the call, its argument and whether it raised. *)
(***************************************************************************)
MaxListValue == 3
MaxListLen == 4

ListValues == 1..MaxListValue

IsSorted(l) == \A i \in 1..(Len(l) - 1) : l[i] <= l[i + 1]

SortedLists ==
    {l \in UNION {[1..n -> ListValues] : n \in 0..MaxListLen} : IsSorted(l)}

ListUnchanged ==
    UNCHANGED <<randomOrderSet, fnameOrderSet, axisVars, currentPath,
                selected_file_path, lazyLoadingInProgress, loopScroll,
                pseudo_random_seed, worker, signals, fs, error, budget, scan>>

ListInit ==
    /\ \E l \in SortedLists : mtimeOrderSet = [NewSet("mtime") EXCEPT !.keys = l]
    /\ randomOrderSet = NewSet("random")
    /\ fnameOrderSet = NewSet("fname")
    /\ verticalOrderSet = "mtime"
    /\ horizontalOrderSet = "random"
    /\ currentPath = None
    /\ selected_file_path = None
    /\ lazyLoadingInProgress = FALSE
    /\ loopScroll = FALSE
    /\ pseudo_random_seed = 1
    /\ worker = [pc |-> "idle", folder |-> None, filePath |-> None,
                 todo |-> {}, data |-> <<>>]
    /\ signals = <<>>
    /\ fs = [p \in Paths |->
               [exists |-> FALSE, mtime |-> InitMtime(p), ok |-> TRUE,
                denied |-> FALSE]]
    /\ error = FALSE
    /\ scan = NoScan
    /\ budget = [opens |-> 0, reloads |-> 0, fs |-> 0, clicks |-> 0]
    /\ last = [op |-> "init", item |-> 0, err |-> FALSE]

\* SortedList.add(item)
ListAdd(item) ==
    /\ Len(mtimeOrderSet.keys) < MaxListLen
    /\ mtimeOrderSet' = [mtimeOrderSet EXCEPT !.keys = SortedListAdd(@, item)]
    /\ last' = [op |-> "add", item |-> item, err |-> FALSE]
    /\ ListUnchanged

\* SortedList.remove(item)
ListRemove(item) ==
    /\ LET r == SortedListRemove(mtimeOrderSet.keys, item)
       IN /\ mtimeOrderSet' = [mtimeOrderSet EXCEPT !.keys = r.list]
          /\ last' = [op |-> "remove", item |-> item, err |-> r.err]
    /\ ListUnchanged

ListNext ==
    \/ \E item \in ListValues : ListAdd(item)
    \/ \E item \in ListValues : ListRemove(item)

ListSpec == ListInit /\ [][ListNext]_vars

\* the number of elements of l equal to x
Occurrences(l, x) == Cardinality({k \in 1..Len(l) : l[k] = x})

\* C38: SortedList.remove(key) removes exactly one occurrence of key, the
\* leftmost, keeps every other element and the non-decreasing order, and
\* when no element equals key raises ValueError and leaves the list
\* unchanged.
RemoveOneOccurrence ==
    [][\A item \in ListValues :
          (last'.op = "remove" /\ last'.item = item /\ ListRemove(item)) =>
             LET l == mtimeOrderSet.keys
                 t == mtimeOrderSet'.keys
             IN IF Occurrences(l, item) = 0
                THEN last'.err /\ t = l
                ELSE /\ ~last'.err
                     /\ Occurrences(t, item) = Occurrences(l, item) - 1
                     /\ \A x \in ListValues \ {item} :
                           Occurrences(t, x) = Occurrences(l, x)
                     /\ IsSorted(t)
                     /\ \E i \in 1..Len(l) :
                           /\ l[i] = item
                           /\ \A j \in 1..(i - 1) : l[j] # item
                           /\ t = ListPop(l, i - 1)
                           /\ BisectLeft(l, item) = i - 1]_vars

\* one of two equal elements was removed from between a smaller and a
\* larger one
RemoveOneOccurrenceWitness ==
    /\ last.op = "remove"
    /\ last.item = 2
    /\ ~last.err
    /\ mtimeOrderSet.keys = <<1, 2, 3>>

====
